---- MODULE Spec2Model ----
(***************************************************************************)
(* Model of setup-database.js: the sequential driver setupDatabase() that  *)
(* walks the declared collections, verifies each one remotely, creates its *)
(* attributes, waits, and creates its indexes.  The remote service is the  *)
(* environment: every call returns a result or throws an error.            *)
(***************************************************************************)
EXTENDS Integers, Sequences, FiniteSets, TLC

(* ---------------- JavaScript values used by the descriptors ------------ *)
\* Optional JS values are kept as strings so that `x || y` can be computed.
Undefined == "undefined"
Null == "null"
FalsyValues == {"undefined", "null", "", "0", "false", "NaN"}

\* JavaScript truthiness, as used by `!collection.id` and by `a || b`.
IsFalsy(x) == x \in FalsyValues

\* JavaScript `a || b`.
JsOr(a, b) == IF IsFalsy(a) THEN b ELSE a

(* ---------------- the declared schema (lines 25-108) ------------------- *)
Attr(k, t, s, r, d, a) ==
    [key |-> k, type |-> t, size |-> s, required |-> r, default |-> d, array |-> a,
     min |-> Undefined, max |-> Undefined]

Index(k, t, as, u) ==
    [key |-> k, type |-> t, attributes |-> as, unique |-> u, orders |-> Undefined]

creators ==
    [env |-> "CREATORS_COLLECTION_ID",
     attributes |-> <<
        Attr("user_id", "string", 255, TRUE, Undefined, Undefined),
        Attr("channel_name", "string", 256, TRUE, Undefined, Undefined),
        Attr("handle", "string", 50, TRUE, Undefined, Undefined),
        Attr("avatar_url", "string", 2048, FALSE, Undefined, Undefined),
        Attr("banner_url", "string", 2048, FALSE, Undefined, Undefined),
        Attr("bio", "string", 2000, FALSE, Undefined, Undefined),
        Attr("subscribers", "integer", Undefined, TRUE, "0", Undefined),
        Attr("total_views", "integer", Undefined, TRUE, "0", Undefined),
        Attr("is_verified", "boolean", Undefined, TRUE, "false", Undefined) >>,
     indexes |-> <<
        Index("user_id_index", "key", <<"user_id">>, Undefined),
        Index("handle_index", "key", <<"handle">>, "true") >>]

videos ==
    [env |-> "VIDEOS_COLLECTION_ID",
     attributes |-> <<
        Attr("title", "string", 256, TRUE, Undefined, Undefined),
        Attr("description", "string", 5000, FALSE, Undefined, Undefined),
        Attr("creator_id", "string", 255, TRUE, Undefined, Undefined),
        Attr("video_file_id", "string", 255, TRUE, Undefined, Undefined),
        Attr("thumbnail_url", "string", 2048, TRUE, Undefined, Undefined),
        Attr("duration", "integer", Undefined, TRUE, Undefined, Undefined),
        Attr("genre", "string", 50, TRUE, Undefined, Undefined),
        Attr("tags", "string", 5000, FALSE, Undefined, "true"),
        Attr("status", "string", 20, TRUE, "draft", Undefined),
        Attr("view_count", "integer", Undefined, TRUE, "0", Undefined),
        Attr("like_count", "integer", Undefined, TRUE, "0", Undefined),
        Attr("is_premium", "boolean", Undefined, TRUE, "false", Undefined),
        Attr("release_date", "datetime", Undefined, TRUE, Undefined, Undefined) >>,
     indexes |-> <<
        Index("creator_index", "key", <<"creator_id">>, Undefined),
        Index("status_genre_index", "key", <<"status", "genre">>, Undefined) >>]

comments ==
    [env |-> "COMMENTS_COLLECTION_ID",
     attributes |-> <<
        Attr("video_id", "string", 255, TRUE, Undefined, Undefined),
        Attr("user_id", "string", 255, TRUE, Undefined, Undefined),
        Attr("content", "string", 2000, TRUE, Undefined, Undefined),
        Attr("parent_id", "string", 255, FALSE, Undefined, Undefined),
        Attr("likes", "integer", Undefined, TRUE, "0", Undefined),
        Attr("is_deleted", "boolean", Undefined, TRUE, "false", Undefined) >>,
     indexes |-> <<
        Index("video_index", "key", <<"video_id">>, Undefined),
        Index("parent_index", "key", <<"parent_id">>, Undefined) >>]

tags ==
    [env |-> "TAGS_COLLECTION_ID",
     attributes |-> <<
        Attr("name", "string", 50, TRUE, Undefined, Undefined),
        Attr("count", "integer", Undefined, TRUE, "0", Undefined) >>,
     indexes |-> <<
        Index("name_index", "key", <<"name">>, "true") >>]

declared == <<creators, videos, comments, tags>>

(* ---------------- bounds of the model ----------------------------------- *)
\* The attribute loop is uniform in the list it walks; the model walks the
\* tail of every declared attribute list: the four kinds the lists end
\* with (integer, boolean, datetime, and the string name of tags) and the
\* declared defaults 0 and false.
MaxAttributes == 2
\* The remote fails at most this many calls for a reason other than a
\* conflict, counted over both runs.
MaxFaults == 1

Min(a, b) == IF a < b THEN a ELSE b

Suffix(s, n) == SubSeq(s, Len(s) - Min(n, Len(s)) + 1, Len(s))

collections ==
    [c \in 1..Len(declared) |->
        [env |-> declared[c].env,
         attributes |-> Suffix(declared[c].attributes, MaxAttributes),
         indexes |-> declared[c].indexes]]

NumCollections == Len(collections)
Cols == 1..NumCollections


(* ---------------- state -------------------------------------------------- *)
VARIABLES
    run,        \* which execution of the script this is: "first" or "second"
    ids,        \* process.env.<X>_COLLECTION_ID for every collection
    pc,         \* where setupDatabase is suspended
    ci,         \* position of the `for (const collection of collections)` loop
    ai,         \* position of the `for (const attr of collection.attributes)` loop
    ii,         \* position of the `for (const index of collection.indexes)` loop
    calls,      \* remote calls issued in this run, in order of issue, each with
                \* its answer ("pending" while awaited) and the tag logged for it
    log,        \* which console line was printed last
    exitCode,   \* argument of process.exit, "none" while running
    remote,     \* attributes and indexes the remote holds
    faults,     \* calls the remote has failed for a reason other than a conflict
    schema1,    \* what the remote held when the first run ended
    clock       \* milliseconds of this run spent in setTimeout delays

vars == <<run, ids, pc, ci, ai, ii, calls, log, exitCode, remote, faults, schema1, clock>>

RunIds == {"first", "second"}

\* Values a collection identifier can have in the environment.
IdValues(c) == {Undefined, "", collections[c].env}

\* Answers of the remote.  An error is described by what its message is:
\*   "conflict"  message includes "already exists"
\*   "notfound"  message includes "not found"
\*   "other"     a message with neither text
\*   "nomsg"     the thrown value has no message property
Errors == {"conflict", "notfound", "other", "nomsg"}
HasMessage(e) == e # "nomsg"
IncludesAlreadyExists(e) == e = "conflict"
IncludesNotFound(e) == e = "notfound"

Attribute(c, k) == <<c, "attribute", k>>
IndexObj(c, k) == <<c, "index", k>>

\* The remote answers a create call for an object it holds with a conflict;
\* any call can also fail for another reason (validation, permission, network).
Failures == {"notfound", "other", "nomsg"}

MayFail(answers) == IF faults < MaxFaults THEN answers ELSE answers \ Failures

CreateAnswers(obj) ==
    MayFail(IF obj \in remote THEN {"conflict", "other", "nomsg"}
            ELSE {"ok", "other", "nomsg"})

GetAnswers == MayFail({"ok", "notfound", "other", "nomsg"})

Fault(r) == IF r \in Failures THEN faults + 1 ELSE faults

DeclaredObjects(c) ==
    {Attribute(c, collections[c].attributes[i].key) : i \in 1..Len(collections[c].attributes)}
    \cup {IndexObj(c, collections[c].indexes[i].key) : i \in 1..Len(collections[c].indexes)}

Init ==
    /\ run = "first"
    /\ ids \in [Cols -> UNION {IdValues(c) : c \in Cols}]
    /\ \A c \in Cols : ids[c] \in IdValues(c)
    /\ pc = "loop"
    /\ ci = 1
    /\ ai = 1
    /\ ii = 1
    /\ calls = <<>>
    /\ log = "START"
    /\ exitCode = "none"
    /\ remote = {}
    /\ faults = 0
    /\ schema1 = {}
    /\ clock = 0

(* ---------------- helpers of the driver --------------------------------- *)
Issue(call) == Append(calls, call)

\* Variant: the call is not awaited, its answer is never taken.
Returned_NotAwaited(r, t) == calls

\* The awaited call has returned r, and tag t was logged for it.
Returned(r, t) == [calls EXCEPT ![Len(calls)].res = r, ![Len(calls)].log = t]

\* Variant: only an unset identifier is noticed, an empty one is used.
MissingId_UndefinedOnly(c) == ids[c] = Undefined

\* Lines 116-121: `if (!collection.id) { ...; continue; }`
MissingId(c) == IsFalsy(ids[c])

\* Lines 138-199: the SDK method chosen by the switch on attr.type.
AttributeMethod(t) ==
    CASE t = "string" -> "createStringAttribute"
      [] t = "integer" -> "createIntegerAttribute"
      [] t = "double" -> "createFloatAttribute"
      [] t = "boolean" -> "createBooleanAttribute"
      [] t = "datetime" -> "createDatetimeAttribute"
      [] OTHER -> "unknown"

\* Lines 140-192: the arguments after (databaseId, collectionId).
AttributeArgs(attr) ==
    CASE attr.type = "string" ->
           [key |-> attr.key, size |-> attr.size, required |-> attr.required,
            default |-> JsOr(attr.default, Null), array |-> JsOr(attr.array, "false")]
      [] attr.type \in {"integer", "double"} ->
           [key |-> attr.key, required |-> attr.required,
            min |-> JsOr(attr.min, Null), max |-> JsOr(attr.max, Null),
            default |-> JsOr(attr.default, Null), array |-> JsOr(attr.array, "false")]
      [] OTHER ->
           [key |-> attr.key, required |-> attr.required,
            default |-> JsOr(attr.default, Null), array |-> JsOr(attr.array, "false")]

\* Lines 234-241: the arguments of createIndex after (databaseId, collectionId).
IndexArgs(index) ==
    [key |-> index.key, type |-> index.type, attributes |-> index.attributes,
     orders |-> JsOr(index.orders, <<>>)]

\* Variant: no test for "already exists", a conflict is reported as a failure.
createCatch_NoSkip(e) ==
    IF ~HasMessage(e) THEN "THROW"
    ELSE "ERROR"

\* Variant: an error that is not a conflict is thrown on.
createCatch_Rethrow(e) ==
    IF HasMessage(e) /\ IncludesAlreadyExists(e) THEN "SKIP"
    ELSE "THROW"

\* Lines 207-221 and 246-260: the catch clause of a create call.
\* "THROW" is the TypeError of reading .includes of an undefined message.
createCatch(e) ==
    IF ~HasMessage(e) THEN "THROW"
    ELSE IF IncludesAlreadyExists(e) THEN "SKIP"
    ELSE "ERROR"

\* Lines 263-274: the catch clause around one collection.
collectionCatch(e) ==
    IF ~HasMessage(e) THEN "THROW"
    ELSE IF IncludesNotFound(e) THEN "NOTFOUND"
    ELSE "SETUP_ERROR"

\* What a catch clause throws when the caught value has no message: a
\* TypeError, whose own message has neither "already exists" nor "not found".
TypeError == "other"

\* Variant: a not-found answer is taken for a collection.
Resolved_Lenient(r) == r \in {"ok", "notfound"}

\* An awaited call resolved (anything else is thrown into the enclosing catch).
Resolved(r) == r = "ok"

\* Variants: a loop that stays on its element, loops that step over one.
NextCollection_Same(c) == c
NextAttribute_Same(a) == a
NextAttribute_Skip(a) == a + 2
NextIndex_Skip(i) == i + 2

\* The `for ... of` loops advance by one element.
NextCollection(c) == c + 1

NextAttribute(a) == a + 1

NextIndex(i) == i + 1

attrOf(c, a) == collections[c].attributes[a]
indexOf(c, i) == collections[c].indexes[i]

\* Lines 206, 226, 245: the setTimeout delays, in milliseconds.
AttributeDelayMs == 100

ReadyDelayMs == 3000

IndexDelayMs == 200

(* ---------------- the driver: lines 111-289 ----------------------------- *)
\* Lines 116-121: no identifier configured, `continue`.
SkipCollection ==
    /\ pc = "loop"
    /\ ci <= NumCollections
    /\ MissingId(ci)
    /\ log' = "CONFIG_ERROR"
    /\ ci' = NextCollection(ci)
    /\ UNCHANGED <<run, ids, pc, ai, ii, calls, exitCode, remote, faults, schema1, clock>>

\* Lines 123-128: `await databases.getCollection(databaseId, collection.id)`.
CallGetCollection ==
    /\ pc = "loop"
    /\ ci <= NumCollections
    /\ ~MissingId(ci)
    /\ calls' = Issue([op |-> "getCollection", c |-> ci, id |-> ids[ci],
                       key |-> ids[ci], args |-> <<>>, res |-> "pending", log |-> "none", at |-> clock])
    /\ pc' = "awaitGet"
    /\ log' = "COLLECTION"
    /\ UNCHANGED <<run, ids, ci, ai, ii, exitCode, remote, faults, schema1, clock>>

\* Lines 129-132 when the call resolves; lines 263-274 when it throws; a
\* throw inside that catch clause reaches lines 285-288.
GetCollectionReturns ==
    /\ pc = "awaitGet"
    /\ \E r \in GetAnswers :
        /\ faults' = Fault(r)
        /\ IF Resolved(r)
           THEN /\ calls' = Returned(r, "OK")
                /\ log' = "PROCESS"
                /\ pc' = "attrs"
                /\ ai' = 1
                /\ UNCHANGED <<ci, exitCode>>
           ELSE IF collectionCatch(r) = "THROW"
           THEN /\ calls' = Returned(r, "CRITICAL")
                /\ log' = "CRITICAL"
                /\ pc' = "exited"
                /\ exitCode' = "1"
                /\ UNCHANGED <<ci, ai>>
           ELSE /\ calls' = Returned(r, collectionCatch(r))
                /\ log' = collectionCatch(r)
                /\ pc' = "loop"
                /\ ci' = NextCollection(ci)
                /\ UNCHANGED <<ai, exitCode>>
    /\ UNCHANGED <<run, ids, ii, remote, schema1, clock>>

\* Lines 134-199: the switch issues the create call of the attribute's type;
\* an unknown type is logged and the loop continues.
CallCreateAttribute ==
    /\ pc = "attrs"
    /\ ai <= Len(collections[ci].attributes)
    /\ LET attr == attrOf(ci, ai)
           m == AttributeMethod(attr.type)
       IN IF m = "unknown"
          THEN /\ log' = "WARN"
               /\ ai' = NextAttribute(ai)
               /\ UNCHANGED <<pc, calls>>
          ELSE /\ calls' = Issue([op |-> m, c |-> ci, id |-> ids[ci],
                                  key |-> attr.key, args |-> AttributeArgs(attr),
                                  res |-> "pending", log |-> "none", at |-> clock])
               /\ pc' = "awaitAttr"
               /\ UNCHANGED <<ai, log>>
    /\ UNCHANGED <<run, ids, ci, ii, exitCode, remote, faults, schema1, clock>>

\* Lines 201-206 when the call resolves, lines 207-221 when it throws; a
\* throw inside the catch clause is caught at lines 263-274 as a TypeError.
CreateAttributeReturns ==
    /\ pc = "awaitAttr"
    /\ LET obj == Attribute(ci, attrOf(ci, ai).key)
       IN \E r \in CreateAnswers(obj) :
            /\ faults' = Fault(r)
            /\ remote' = IF r = "ok" THEN remote \cup {obj} ELSE remote
            /\ IF Resolved(r)
               THEN /\ log' = "OK"
                    /\ pc' = "sleepAttr"
                    /\ UNCHANGED <<ci, ai>>
               ELSE IF createCatch(r) = "THROW"
               THEN /\ log' = collectionCatch(TypeError)
                    /\ pc' = "loop"
                    /\ ci' = NextCollection(ci)
                    /\ ai' = 1
               ELSE /\ log' = createCatch(r)
                    /\ pc' = "attrs"
                    /\ ai' = NextAttribute(ai)
                    /\ UNCHANGED ci
            /\ calls' = Returned(r, log')
    /\ UNCHANGED <<run, ids, ii, exitCode, schema1, clock>>

\* Line 206: the 100 ms timer fires.
AttributeDelay ==
    /\ pc = "sleepAttr"
    /\ pc' = "attrs"
    /\ ai' = NextAttribute(ai)
    /\ UNCHANGED <<run, ids, ci, ii, calls, log, exitCode, remote, faults, schema1>>
    /\ clock' = clock + AttributeDelayMs

\* Lines 222-226: the attribute loop is over, wait 3000 ms.
AttributesDone ==
    /\ pc = "attrs"
    /\ ai > Len(collections[ci].attributes)
    /\ log' = "WAIT"
    /\ pc' = "sleepReady"
    /\ ai' = 1
    /\ UNCHANGED <<run, ids, ci, ii, calls, exitCode, remote, faults, schema1, clock>>

\* Variant: the 3000 ms timer is started but not awaited.
ReadyDelay_NotAwaited ==
    /\ pc = "sleepReady"
    /\ IF Len(collections[ci].indexes) > 0
       THEN /\ log' = "INDEX"
            /\ pc' = "indexes"
            /\ ii' = 1
            /\ UNCHANGED ci
       ELSE /\ pc' = "loop"
            /\ ci' = NextCollection(ci)
            /\ UNCHANGED <<ii, log>>
    /\ UNCHANGED <<run, ids, ai, calls, exitCode, remote, faults, schema1, clock>>

\* Lines 226-232: the 3000 ms timer fires; indexes follow when any are declared.
ReadyDelay ==
    /\ pc = "sleepReady"
    /\ IF Len(collections[ci].indexes) > 0
       THEN /\ log' = "INDEX"
            /\ pc' = "indexes"
            /\ ii' = 1
            /\ UNCHANGED ci
       ELSE /\ pc' = "loop"
            /\ ci' = NextCollection(ci)
            /\ UNCHANGED <<ii, log>>
    /\ UNCHANGED <<run, ids, ai, calls, exitCode, remote, faults, schema1>>
    /\ clock' = clock + ReadyDelayMs

\* Lines 232-241: `await databases.createIndex(...)`.
CallCreateIndex ==
    /\ pc = "indexes"
    /\ ii <= Len(collections[ci].indexes)
    /\ LET index == indexOf(ci, ii)
       IN calls' = Issue([op |-> "createIndex", c |-> ci, id |-> ids[ci],
                          key |-> index.key, args |-> IndexArgs(index),
                          res |-> "pending", log |-> "none", at |-> clock])
    /\ pc' = "awaitIndex"
    /\ UNCHANGED <<run, ids, ci, ai, ii, log, exitCode, remote, faults, schema1, clock>>

\* Lines 242-245 when the call resolves, lines 246-260 when it throws; a
\* throw inside the catch clause is caught at lines 263-274 as a TypeError.
CreateIndexReturns ==
    /\ pc = "awaitIndex"
    /\ LET obj == IndexObj(ci, indexOf(ci, ii).key)
       IN \E r \in CreateAnswers(obj) :
            /\ faults' = Fault(r)
            /\ remote' = IF r = "ok" THEN remote \cup {obj} ELSE remote
            /\ IF Resolved(r)
               THEN /\ log' = "OK"
                    /\ pc' = "sleepIndex"
                    /\ UNCHANGED <<ci, ii>>
               ELSE IF createCatch(r) = "THROW"
               THEN /\ log' = collectionCatch(TypeError)
                    /\ pc' = "loop"
                    /\ ci' = NextCollection(ci)
                    /\ ii' = 1
               ELSE /\ log' = createCatch(r)
                    /\ pc' = "indexes"
                    /\ ii' = NextIndex(ii)
                    /\ UNCHANGED ci
            /\ calls' = Returned(r, log')
    /\ UNCHANGED <<run, ids, ai, exitCode, schema1, clock>>

\* Variant: the promise around the 200 ms timer is never resolved.
IndexDelay_NeverResolved ==
    /\ pc = "sleepIndex"
    /\ UNCHANGED vars

\* Line 245: the 200 ms timer fires.
IndexDelay ==
    /\ pc = "sleepIndex"
    /\ pc' = "indexes"
    /\ ii' = NextIndex(ii)
    /\ UNCHANGED <<run, ids, ci, ai, calls, log, exitCode, remote, faults, schema1>>
    /\ clock' = clock + IndexDelayMs

\* Lines 261-262, 275: the index loop is over, next collection.
IndexesDone ==
    /\ pc = "indexes"
    /\ ii > Len(collections[ci].indexes)
    /\ pc' = "loop"
    /\ ci' = NextCollection(ci)
    /\ ii' = 1
    /\ UNCHANGED <<run, ids, ai, calls, log, exitCode, remote, faults, schema1, clock>>

\* Lines 277-284 and 293-297: the loop is over, setupDatabase resolves and
\* the `then` handler calls process.exit(0).
Complete ==
    /\ pc = "loop"
    /\ ci > NumCollections
    /\ log' = "SUCCESS"
    /\ pc' = "exited"
    /\ exitCode' = "0"
    /\ UNCHANGED <<run, ids, ci, ai, ii, calls, remote, faults, schema1, clock>>

\* The script is run again against the same remote with the same environment.
Rerun ==
    /\ pc = "exited"
    /\ run = "first"
    /\ run' = "second"
    /\ schema1' = remote
    /\ pc' = "loop"
    /\ ci' = 1
    /\ ai' = 1
    /\ ii' = 1
    /\ calls' = <<>>
    /\ log' = "START"
    /\ exitCode' = "none"
    /\ clock' = 0
    /\ UNCHANGED <<ids, remote, faults>>

Next ==
    \/ SkipCollection
    \/ CallGetCollection
    \/ GetCollectionReturns
    \/ CallCreateAttribute
    \/ CreateAttributeReturns
    \/ AttributeDelay
    \/ AttributesDone
    \/ ReadyDelay
    \/ CallCreateIndex
    \/ CreateIndexReturns
    \/ IndexDelay
    \/ IndexesDone
    \/ Complete
    \/ Rerun

Spec == Init /\ [][Next]_vars

\* One step of the running script: everything but starting it again.
RunStep ==
    \/ SkipCollection
    \/ CallGetCollection
    \/ GetCollectionReturns
    \/ CallCreateAttribute
    \/ CreateAttributeReturns
    \/ AttributeDelay
    \/ AttributesDone
    \/ ReadyDelay
    \/ CallCreateIndex
    \/ CreateIndexReturns
    \/ IndexDelay
    \/ IndexesDone
    \/ Complete

\* Every awaited call returns, every timer fires, and the event loop resumes
\* the script whenever it can continue; nothing obliges anyone to run the
\* script a second time.
LiveSpec == Init /\ [][Next]_vars /\ WF_vars(RunStep)

TypeOK ==
    /\ run \in RunIds
    /\ pc \in {"loop", "awaitGet", "attrs", "awaitAttr", "sleepAttr", "sleepReady",
               "indexes", "awaitIndex", "sleepIndex", "exited"}
    /\ exitCode \in {"none", "0", "1"}
    /\ faults \in 0..MaxFaults
    /\ clock \in Nat

(* ---------------- vocabulary of the properties --------------------------- *)
AttributeOps == {"createStringAttribute", "createIntegerAttribute", "createFloatAttribute",
                 "createBooleanAttribute", "createDatetimeAttribute"}
CreateOps == AttributeOps \cup {"createIndex"}

CallIds == 1..Len(calls)
AttributeCalls(c) == {i \in CallIds : calls[i].op \in AttributeOps /\ calls[i].c = c}
IndexCalls(c) == {i \in CallIds : calls[i].op = "createIndex" /\ calls[i].c = c}
GetCalls(c) == {i \in CallIds : calls[i].op = "getCollection" /\ calls[i].c = c}
CallsFor(c) == {i \in CallIds : calls[i].c = c}

\* The remote object a create call is about.
ObjectOf(i) ==
    IF calls[i].op = "createIndex" THEN IndexObj(calls[i].c, calls[i].key)
    ELSE Attribute(calls[i].c, calls[i].key)

Configured(c) == ids[c] \notin {Undefined, ""}
Exited == pc = "exited"
NonConflictFailure(i) == calls[i].res \in {"notfound", "other", "nomsg"}

AttributeKeyCalls(c, a) == {i \in AttributeCalls(c) : calls[i].key = attrOf(c, a).key}
IndexKeyCalls(c, x) == {i \in IndexCalls(c) : calls[i].key = indexOf(c, x).key}
AttributeIds(c) == 1..Len(collections[c].attributes)
IndexIds(c) == 1..Len(collections[c].indexes)

(* ---------------- C1 ------------------------------------------------------ *)
\* C1: for every collection, every create-field call of the collection has
\* been issued and has returned before any create-index call of the same
\* collection is issued; none is issued after one.
C1_FieldsBeforeIndexes ==
    \A c \in Cols : \A i \in AttributeCalls(c) : \A j \in IndexCalls(c) :
        i < j /\ calls[i].res # "pending"

C1_Witness ==
    \E c \in Cols :
        /\ Cardinality(AttributeCalls(c)) = Len(collections[c].attributes)
        /\ Cardinality(IndexCalls(c)) = Len(collections[c].indexes)
        /\ \E i \in AttributeCalls(c) : calls[i].res = "other"

(* ---------------- C2 ------------------------------------------------------ *)
\* C2: when the run has ended, every field declared after a field whose
\* create call failed with a non-conflict error (with or without a message)
\* has had its own create call.
C2_LaterFieldsAttempted ==
    Exited =>
        \A c \in Cols : \A a \in AttributeIds(c) :
            (\E i \in AttributeKeyCalls(c, a) : calls[i].res \in {"other", "nomsg"})
                => \A b \in AttributeIds(c) : b > a => AttributeKeyCalls(c, b) # {}

(* ---------------- C3 ------------------------------------------------------ *)
\* C3: when the run has ended, every configured collection listed after a
\* collection whose get-collection call failed (not found or any other
\* error) has had its own get-collection call.
C3_LaterCollectionsVisited ==
    Exited =>
        \A c \in Cols :
            (\E i \in GetCalls(c) : NonConflictFailure(i))
                => \A d \in Cols : (d > c /\ Configured(d)) => GetCalls(d) # {}

(* ---------------- C5 ------------------------------------------------------ *)
\* C5: a collection whose get-collection call failed with not-found has no
\* create-field and no create-index call in the run.
C5_NotFoundNoCreate ==
    \A c \in Cols :
        (\E i \in GetCalls(c) : calls[i].res = "notfound")
            => AttributeCalls(c) \cup IndexCalls(c) = {}

C5_Witness ==
    /\ Exited
    /\ \E c \in Cols : \E i \in GetCalls(c) : calls[i].res = "notfound"
    /\ \E d \in Cols : AttributeCalls(d) # {}

(* ---------------- C4 ------------------------------------------------------ *)
CreateCalls == {i \in CallIds : calls[i].op \in CreateOps}

\* Create calls of this run for objects the first run left on the remote.
RepeatedCalls == {i \in CreateCalls : ObjectOf(i) \in schema1}

\* The remote answers every create call for an existing object with a conflict.
ConflictOnExisting == \A i \in RepeatedCalls : calls[i].res \in {"pending", "conflict"}

\* The run went on after call i: the next declared attribute, or the first
\* index after the last attribute, or the next declared index, was requested.
ContinuedAfter(i) ==
    LET c == calls[i].c
    IN IF calls[i].op = "createIndex"
       THEN \A x \in IndexIds(c) :
                (indexOf(c, x).key = calls[i].key /\ x < Len(collections[c].indexes))
                    => IndexKeyCalls(c, x + 1) # {}
       ELSE \A a \in AttributeIds(c) :
                attrOf(c, a).key = calls[i].key
                    => IF a < Len(collections[c].attributes)
                       THEN AttributeKeyCalls(c, a + 1) # {}
                       ELSE IndexIds(c) # {} => IndexKeyCalls(c, 1) # {}

SecondRunOver == run = "second" /\ Exited

FirstRunComplete == \A c \in Cols : Configured(c) => DeclaredObjects(c) \subseteq schema1

AtUnconfigured == pc = "loop" /\ ci \in Cols /\ ~Configured(ci)

\* C6: no remote call is ever issued for a collection whose identifier is
\* missing or empty, and passing over such a collection changes nothing but
\* the loop position, so that the rest of the run is the one of a list
\* without that collection.
C6_UnconfiguredSkipped ==
    /\ [](\A c \in Cols : ~Configured(c) => CallsFor(c) = {})
    /\ [][AtUnconfigured =>
            /\ ci' = ci + 1
            /\ UNCHANGED <<run, ids, pc, ai, ii, calls, exitCode, remote, faults, schema1, clock>>]_vars

C6_Witness ==
    /\ Exited
    /\ exitCode = "0"
    /\ \E c \in Cols : \E d \in Cols :
        /\ ids[c] = ""
        /\ c < d
        /\ Cardinality(CallsFor(d)) =
             1 + Len(collections[d].attributes) + Len(collections[d].indexes)

(* ---------------- C7 ------------------------------------------------------ *)
DeclaredAttributes == UNION {{<<c, a>> : a \in AttributeIds(c)} : c \in Cols}
DeclaredIndexes == UNION {{<<c, x>> : x \in IndexIds(c)} : c \in Cols}

AllSucceeded ==
    /\ \A c \in Cols : Configured(c)
    /\ \A i \in CallIds : calls[i].res = "ok"

\* C7: a run in which every collection is configured and every call succeeds
\* ends with exit code 0 having issued one create-field call per declared
\* field and one create-index call per declared index, N and M in total.
C7_CleanRunCounts ==
    (Exited /\ AllSucceeded) =>
        /\ exitCode = "0"
        /\ \A c \in Cols : \A a \in AttributeIds(c) : Cardinality(AttributeKeyCalls(c, a)) = 1
        /\ \A c \in Cols : \A x \in IndexIds(c) : Cardinality(IndexKeyCalls(c, x)) = 1
        /\ Cardinality({i \in CallIds : calls[i].op \in AttributeOps})
             = Cardinality(DeclaredAttributes)
        /\ Cardinality({i \in CallIds : calls[i].op = "createIndex"})
             = Cardinality(DeclaredIndexes)

C7_Witness ==
    /\ Exited
    /\ AllSucceeded
    /\ Cardinality(CreateCalls) = Cardinality(DeclaredAttributes) + Cardinality(DeclaredIndexes)

(* ---------------- C8 ------------------------------------------------------ *)
\* C8: the run ends only with exit 0 after the loop has passed every
\* collection or with exit 1, and the failure of a get-collection,
\* create-field or create-index call (the only failures there are here)
\* never makes it end with exit 1 or before every collection was processed.
C8_CallFailureNeverFatal ==
    Exited =>
        /\ exitCode \in {"0", "1"}
        /\ exitCode = "0" => ci > NumCollections
        /\ (\E i \in CallIds : NonConflictFailure(i))
              => exitCode = "0" /\ ci > NumCollections

(* ---------------- C9 ------------------------------------------------------ *)
\* No call of this run failed for a reason other than a conflict.
NoFailure == \A i \in CallIds : calls[i].res \in {"ok", "conflict"}

\* C9: a second run without non-conflict failure, whatever the first run
\* left behind, ends with exit 0, has skipped every declared object that
\* existed and created every one that was missing, each with one call, and
\* leaves every declared field and index of every configured collection on
\* the remote.
C9_RerunHeals ==
    (SecondRunOver /\ NoFailure) =>
        /\ exitCode = "0"
        /\ \A c \in Cols : Configured(c) =>
            /\ DeclaredObjects(c) \subseteq remote
            /\ \A a \in AttributeIds(c) : Cardinality(AttributeKeyCalls(c, a)) = 1
            /\ \A x \in IndexIds(c) : Cardinality(IndexKeyCalls(c, x)) = 1
        /\ \A i \in CreateCalls :
            IF ObjectOf(i) \in schema1
            THEN calls[i].res = "conflict" /\ calls[i].log = "SKIP"
            ELSE calls[i].res = "ok" /\ calls[i].log = "OK"

C9_Witness ==
    /\ SecondRunOver
    /\ NoFailure
    /\ \A c \in Cols : Configured(c)
    /\ \E c \in Cols :
        /\ DeclaredObjects(c) \cap schema1 # {}
        /\ DeclaredObjects(c) \ schema1 # {}
    /\ \A c \in Cols : DeclaredObjects(c) \subseteq remote

(* ---------------- C10 ----------------------------------------------------- *)
\* The index kind a descriptor declares: a unique key index when it is
\* marked unique, else the kind of its type field.
DeclaredKind(index) == IF index.unique = "true" THEN "unique" ELSE index.type

\* C10: every create-index call carries its descriptor's key, declared kind,
\* referenced field keys in order, and sort orders (none when undeclared).
C10_IndexCallCarriesDescriptor ==
    \A c \in Cols : \A x \in IndexIds(c) : \A i \in IndexKeyCalls(c, x) :
        /\ calls[i].args.key = indexOf(c, x).key
        /\ calls[i].args.type = DeclaredKind(indexOf(c, x))
        /\ calls[i].args.attributes = indexOf(c, x).attributes
        /\ calls[i].args.orders = <<>>

(* ---------------- C11 ----------------------------------------------------- *)
\* The default a descriptor declares: its value, none (null) when absent.
DeclaredDefault(attr) == IF attr.default = Undefined THEN Null ELSE attr.default

\* The array-ness a descriptor declares.
DeclaredArray(attr) == IF attr.array = "true" THEN "true" ELSE "false"

\* C11: every create-field call passes its descriptor's required flag,
\* array-ness, size (for text) and default exactly as declared, the defaults
\* 0 and false included, and no default when none is declared.
C11_FieldCallCarriesDescriptor ==
    \A c \in Cols : \A a \in AttributeIds(c) : \A i \in AttributeKeyCalls(c, a) :
        LET attr == attrOf(c, a)
        IN /\ calls[i].op = AttributeMethod(attr.type)
           /\ calls[i].args.required = attr.required
           /\ calls[i].args.array = DeclaredArray(attr)
           /\ attr.type = "string" => calls[i].args.size = attr.size
           /\ calls[i].args.default = DeclaredDefault(attr)

(* ---------------- C12 ----------------------------------------------------- *)
\* C12: whatever its outcome, every create call is followed by a delay before
\* the next remote call is issued.
C12_DelayAfterEveryCreate ==
    \A i \in CallIds :
        (i < Len(calls) /\ calls[i].op \in CreateOps) => calls[i + 1].at > calls[i].at

(* ---------------- C13 ----------------------------------------------------- *)
\* C13: in every collection, every create-field attempt has returned, and the
\* long delay has elapsed since, when a create-index call is issued, whatever
\* the outcomes of the attempts.
C13_LongDelayBeforeIndexes ==
    \A c \in Cols : \A i \in AttributeCalls(c) : \A j \in IndexCalls(c) :
        /\ calls[i].res # "pending"
        /\ calls[j].at - calls[i].at >= ReadyDelayMs

C13_Witness ==
    \E c \in Cols : \E i \in AttributeCalls(c) : \E j \in IndexCalls(c) :
        /\ calls[i].res = "other"
        /\ calls[j].at - calls[i].at = ReadyDelayMs
        /\ \E k \in AttributeCalls(c) : calls[k].res = "ok"

(* ---------------- C14 ----------------------------------------------------- *)
\* Position of a call within its collection: get-collection, then the
\* attributes in declared order, then the indexes in declared order.
Rank(i) ==
    LET c == calls[i].c
    IN IF calls[i].op = "getCollection" THEN 0
       ELSE IF calls[i].op = "createIndex"
       THEN Len(collections[c].attributes)
            + (CHOOSE x \in IndexIds(c) : indexOf(c, x).key = calls[i].key)
       ELSE CHOOSE a \in AttributeIds(c) : attrOf(c, a).key = calls[i].key

Outstanding == {i \in CallIds : calls[i].res = "pending"}

\* C14: at most one remote call is outstanding, a call is issued only when
\* all earlier ones have returned, and calls are issued in declaration order:
\* collections in list order and, within one, get-collection, fields in
\* declared order, indexes in declared order.
C14_OneCallAtATimeInOrder ==
    /\ Cardinality(Outstanding) <= 1
    /\ Outstanding \subseteq {Len(calls)}
    /\ (Outstanding # {}) = (pc \in {"awaitGet", "awaitAttr", "awaitIndex"})
    /\ \A i \in CallIds : \A j \in CallIds :
        i < j => \/ calls[i].c < calls[j].c
                 \/ calls[i].c = calls[j].c /\ Rank(i) < Rank(j)

C14_Witness ==
    /\ Outstanding # {}
    /\ \E i \in CallIds : calls[i].c = 1
    /\ \E i \in CallIds : calls[i].c = NumCollections /\ calls[i].op = "createIndex"
    /\ \E i \in CallIds : calls[i].res = "other"

(* ---------------- C15 ----------------------------------------------------- *)
\* The collection was found, and no create call of it threw a value without
\* a message.
FoundWithMessages(c) ==
    /\ \E i \in GetCalls(c) : calls[i].res = "ok"
    /\ \A i \in CallsFor(c) : calls[i].res # "nomsg"

FieldFailedWithMessage(c) == \E i \in AttributeCalls(c) : calls[i].res = "other"

C16_NoRetry ==
    /\ \A c \in Cols : Cardinality(GetCalls(c)) <= 1
    /\ \A c \in Cols : \A a \in AttributeIds(c) : Cardinality(AttributeKeyCalls(c, a)) <= 1
    /\ \A c \in Cols : \A x \in IndexIds(c) : Cardinality(IndexKeyCalls(c, x)) <= 1
    /\ \A i \in CreateCalls : ObjectOf(i) \in DeclaredObjects(calls[i].c)

C16_Witness ==
    /\ Exited
    /\ \E c \in Cols : \E a \in AttributeIds(c) : \E i \in AttributeKeyCalls(c, a) :
        /\ calls[i].res = "other"
        /\ Cardinality(AttributeKeyCalls(c, a)) = 1
        /\ Attribute(c, attrOf(c, a).key) \notin remote

(* ---------------- C17 ----------------------------------------------------- *)
\* C17: when every call returns and every delay elapses, a run that has not
\* ended eventually ends, with exit 0 or exit 1.
C17_Terminates ==
    (pc # "exited") ~> (pc = "exited" /\ exitCode \in {"0", "1"})

C17_Witness ==
    /\ SecondRunOver
    /\ \E c \in Cols : ~Configured(c)
    /\ \E i \in CallIds : calls[i].res = "conflict"
    /\ \E i \in CallIds : calls[i].res \in {"notfound", "other", "nomsg"}

====
